---- MODULE Spec2Model ----
(***************************************************************************)
(* A model of steps/utilities/meshio.py: the TetGen importer readTetgen,   *)
(* the canonical writer saveXML and the canonical reader loadXML.          *)
(*                                                                         *)
(* Files are sequences of text lines, and a line is a string, as in the    *)
(* source: the parsers below slice, strip, split and convert characters    *)
(* the way the Python code does.  A Python exception is recorded in        *)
(* `result` under its class name and ends the operation.                   *)
(***************************************************************************)
EXTENDS Integers, Sequences, FiniteSets, TLC

VARIABLES
    pc,         \* position of the running operation in its code
    inp,        \* the scenario: how the input files / the mesh were made
    files,      \* the file system: file name -> sequence of lines
    openFiles,  \* file objects opened and not closed
    result,     \* "" while running, "ok", "None", "0", or the exception raised
    ret,        \* the value returned on success
    idxshift,   \* readTetgen: the index shift
    nodes,      \* readTetgen: the nodes array
    tets,       \* readTetgen: the tets array
    comps,      \* readTetgen: the region attributes read, in file order
    faces,      \* readTetgen: the faces array, or None
    patches,    \* readTetgen: the boundary markers read, in file order
    mesh,       \* the Tetmesh object built or saved (engine state)
    todo,       \* tags the annotation loop running has still to visit
    ld          \* loadXML: its local variables

vars == <<pc, inp, files, openFiles, result, ret, idxshift, nodes, tets,
          comps, faces, patches, mesh, todo, ld>>

\* ------------------------------------------------------------------ bounds

\* Most records (nodes, tetrahedra, faces) a TetGen file declares.
MaxRecs == 2

\* ------------------------------------------------------- Python's strings

\* Python's None, and a local variable that was never assigned.
None == [none |-> TRUE]
Unbound == [unbound |-> TRUE]

\* s[i] for a 1-based i.
Ch(s, i) == SubSeq(s, i, i)

\* s.find(c) for a one-character c, 1-based; 0 when c is not in s.
RECURSIVE FindFrom(_, _, _)
FindFrom(s, c, i) ==
    IF i > Len(s) THEN 0
    ELSE IF Ch(s, i) = c THEN i ELSE FindFrom(s, c, i + 1)

Find(s, c) == FindFrom(s, c, 1)

IsSpace(c) == c = " " \/ c = "\n" \/ c = "\t"

\* The end of the run of non-whitespace characters that starts at i.
RECURSIVE WordEnd(_, _)
WordEnd(s, i) ==
    IF i > Len(s) \/ IsSpace(Ch(s, i)) THEN i - 1 ELSE WordEnd(s, i + 1)

\* s.split(): the maximal runs of non-whitespace characters.
RECURSIVE SplitWsFrom(_, _, _)
SplitWsFrom(s, i, acc) ==
    IF i > Len(s) THEN acc
    ELSE IF IsSpace(Ch(s, i)) THEN SplitWsFrom(s, i + 1, acc)
    ELSE LET j == WordEnd(s, i)
         IN  SplitWsFrom(s, j + 1, Append(acc, SubSeq(s, i, j)))

SplitWs(s) == SplitWsFrom(s, 1, <<>>)

Digits == <<"0", "1", "2", "3", "4", "5", "6", "7", "8", "9">>

IsDigit(c) == \E d \in 1 .. 10 : Digits[d] = c

DigitVal(c) == (CHOOSE d \in 1 .. 10 : Digits[d] = c) - 1

RECURSIVE AllDigits(_, _)
AllDigits(s, i) == i > Len(s) \/ (IsDigit(Ch(s, i)) /\ AllDigits(s, i + 1))

RECURSIVE NatVal(_, _, _)
NatVal(s, i, acc) ==
    IF i > Len(s) THEN acc ELSE NatVal(s, i + 1, 10 * acc + DigitVal(Ch(s, i)))

\* Whether int(s) succeeds: an optional sign and at least one digit.
IsInt(s) ==
    IF Len(s) > 0 /\ Ch(s, 1) = "-"
    THEN Len(s) > 1 /\ AllDigits(s, 2)
    ELSE Len(s) > 0 /\ AllDigits(s, 1)

\* int(s)
PyInt(s) == IF Ch(s, 1) = "-" THEN 0 - NatVal(s, 2, 0) ELSE NatVal(s, 1, 0)

\* A float is counted in halves: the value 3 is 1.5.  repr(x) of a float x
\* (str of a tuple applies repr to its items).
Repr(x) == ToString(x \div 2) \o (IF x % 2 = 0 THEN ".0" ELSE ".5")

\* Whether float(s) succeeds: an integer, or an integer, a point and a digit
\* (the model's files hold no longer fraction).
IsFloat(s) ==
    LET dot == Find(s, ".")
    IN  IF dot = 0 THEN IsInt(s)
        ELSE /\ IsInt(SubSeq(s, 1, dot - 1))
             /\ Len(s) = dot + 1
             /\ Ch(s, dot + 1) \in {"0", "5"}

\* float(s)
PyFloat(s) ==
    LET dot == Find(s, ".")
    IN  IF dot = 0 THEN 2 * PyInt(s)
        ELSE 2 * PyInt(SubSeq(s, 1, dot - 1)) + (IF Ch(s, dot + 1) = "5" THEN 1 ELSE 0)

\* file.readline(): the k-th line of the file, "" at the end of the file.
ReadLine(lines, k) == IF k <= Len(lines) THEN lines[k] ELSE ""

\* numpy's a[idx] on an axis of length n: a negative index counts from the
\* end; -1 here for an IndexError.
NpIndex(idx, n) ==
    IF 0 <= idx /\ idx < n THEN idx
    ELSE IF -n <= idx /\ idx < 0 THEN idx + n
    ELSE -1

\* numpy.empty((n, w)): n rows of w slots that nothing has written; a row the
\* code never writes is <<>> here until Settle gives it what the memory held.
NpEmpty(n, w) == [n |-> n, w |-> w, a |-> [i \in 0 .. n - 1 |-> <<>>]]

\* The values an uninitialised slot of numpy.empty may hold.
Garbage == {0, 7}

\* The array as its reader finds it: a row never written holds garbage.
Settle(arr, g) ==
    [arr EXCEPT !.a = [i \in 0 .. arr.n - 1 |->
                         IF arr.a[i] = <<>> THEN [k \in 1 .. arr.w |-> g] ELSE arr.a[i]]]

\* array.flatten(): the rows of the array one after another.
RECURSIVE FlattenFrom(_, _)
FlattenFrom(arr, i) ==
    IF i >= arr.n THEN <<>> ELSE arr.a[i] \o FlattenFrom(arr, i + 1)

Flatten(arr) == FlattenFrom(arr, 0)

\* ------------------------------------------------- readTetgen: the inputs

\* InsertAt(seq, p, x): seq with x put after its first p items.
InsertAt(seq, p, x) ==
    SubSeq(seq, 1, p) \o <<x>> \o SubSeq(seq, p + 1, Len(seq))

RECURSIVE Reverse(_)
Reverse(seq) == IF seq = <<>> THEN <<>> ELSE Append(Reverse(Tail(seq)), Head(seq))

\* The region attribute of tetrahedron j and the boundary marker of face j.
RegionTag(in, j) == IF in.tagpat = "same" THEN 10 ELSE 10 * (j + 1)
BoundaryTag(in, j) == IF in.tagpat = "same" THEN 11 ELSE 11 + j

\* The text of the .node record of node j, of the .ele record of tetrahedron
\* j and of the .face record of face j (j counted from 0; the ids and the
\* node references in the file are counted from in.base).
NodeRecord(in, j) ==
    ToString(j + in.base) \o "  " \o ToString(j) \o " " \o Repr(j + 1) \o " 0.5"
        \o (IF j = 0 THEN " #1\n" ELSE "\n")

NodeRef(in, j, k) == ToString(((j + k) % in.nn) + in.base)

EleRecord(in, j) ==
    ToString(j + in.base) \o " " \o NodeRef(in, j, 0) \o " " \o NodeRef(in, j, 1)
        \o " " \o NodeRef(in, j, 2) \o " " \o NodeRef(in, j, 3)
        \o (IF in.npt = 10
            THEN " " \o NodeRef(in, j, 0) \o " " \o NodeRef(in, j, 1) \o " "
                 \o NodeRef(in, j, 2) \o " " \o NodeRef(in, j, 3) \o " "
                 \o NodeRef(in, j, 0) \o " " \o NodeRef(in, j, 1)
            ELSE "")
        \o (IF \/ in.tattr = 1 /\ ~(in.anomaly.kind = "shortcol" /\ in.anomaly.pos = j)
               \/ in.anomaly.kind = "extracol"
            THEN " " \o ToString(RegionTag(in, j))
            ELSE "")
        \o "\n"

FaceRecord(in, j) ==
    ToString(j + in.base) \o " " \o NodeRef(in, j, 0) \o " " \o NodeRef(in, j, 1)
        \o " " \o NodeRef(in, j, 2)
        \o (IF in.fattr = 1 THEN " " \o ToString(BoundaryTag(in, j)) ELSE "")
        \o "\n"

\* The records of one file in the order the file holds them (in.rev names
\* the files whose records come in descending order of id), with the
\* scenario's comment line or blank line among them.
Records(in, file, recs) ==
    LET ordered == IF file \in in.rev THEN Reverse(recs) ELSE recs
    IN  IF in.anomaly.file = file /\ in.anomaly.kind = "comment"
        THEN InsertAt(ordered, in.anomaly.pos, "# c\n")
        ELSE IF in.anomaly.file = file /\ in.anomaly.kind = "blank"
        THEN InsertAt(ordered, in.anomaly.pos, "\n")
        ELSE ordered

NodeFile(in) ==
    <<ToString(in.nn) \o " 3 0 0\n">>
        \o Records(in, "node", [j \in 1 .. in.nn |-> NodeRecord(in, j - 1)])

EleFile(in) ==
    <<ToString(in.nt) \o " " \o ToString(in.npt) \o " " \o ToString(in.tattr) \o "\n">>
        \o Records(in, "ele", [j \in 1 .. in.nt |-> EleRecord(in, j - 1)])

FaceFile(in) ==
    <<ToString(in.nf) \o " " \o ToString(in.fattr) \o "\n">>
        \o Records(in, "face", [j \in 1 .. in.nf |-> FaceRecord(in, j - 1)])

\* The files pathroot.node, pathroot.ele and pathroot.face of a scenario.
TetgenFiles(in) ==
    LET have == (IF in.anomaly.kind = "missing" /\ in.anomaly.file = "node"
                 THEN {} ELSE {"node"})
                \cup (IF in.anomaly.kind = "missing" /\ in.anomaly.file = "ele"
                      THEN {} ELSE {"ele"})
                \cup (IF in.nf > 0 THEN {"face"} ELSE {})
    IN  [f \in have |-> CASE f = "node" -> NodeFile(in)
                          [] f = "ele" -> EleFile(in)
                          [] f = "face" -> FaceFile(in)]

NoAnomaly == [kind |-> "none", file |-> "", pos |-> 0]

Anomalies ==
    {NoAnomaly}
    \cup {[kind |-> "comment", file |-> f, pos |-> 0] : f \in {"node", "ele", "face"}}
    \cup {[kind |-> "blank", file |-> f, pos |-> 1] : f \in {"node", "ele", "face"}}
    \cup {[kind |-> "missing", file |-> f, pos |-> 0] : f \in {"node", "ele"}}
    \cup {[kind |-> "extracol", file |-> "ele", pos |-> 0]}
    \cup {[kind |-> "shortcol", file |-> "ele", pos |-> p] : p \in 0 .. MaxRecs - 1}

\* The caller's dictionaries.  "none": no dictionary is given; "compPartial":
\* compmap knows tag 10 only; "compFull": compmap knows every tag;
\* "patchGood": all three dictionaries, every patch inside compartment c10;
\* "patchBadInner": patchiomap names a compartment that is never created;
\* "patchOnly": the patch dictionaries without compmap.
MapCases ==
    {"none", "compPartial", "compFull", "patchGood", "patchBadInner", "patchOnly"}

TetgenInputs ==
    {in \in [base : {0, 1}, nn : {MaxRecs}, nt : 1 .. MaxRecs, nf : 0 .. MaxRecs,
             rev : {{}, {"node"}, {"ele", "face"}}, anomaly : Anomalies, npt : {4, 10}, tattr : {0, 1},
             fattr : {0, 1}, tagpat : {"same", "distinct"}, maps : MapCases] :
        /\ in.anomaly.file = "face" => in.nf > 0
        /\ in.anomaly.kind = "extracol" => in.tattr = 0
        /\ in.anomaly.kind = "shortcol" => (in.tattr = 1 /\ in.anomaly.pos \in {0, in.nt - 1})
        /\ in.nf = 0 => in.fattr = 0
        /\ in.tattr = 0 => in.maps \in {"none", "compFull"}
        /\ (in.tattr = 0 /\ in.fattr = 0) => in.tagpat = "same"}

CompName(tag) == "c" \o ToString(tag)
PatchName(tag) == "p" \o ToString(tag)

\* compmap: None, or the dictionary tag -> compartment id.
CompMap(in) ==
    CASE in.maps \in {"none", "patchOnly"} -> None
      [] in.maps = "compPartial" -> [dict |-> [t \in {10} |-> CompName(t)]]
      [] OTHER -> [dict |-> [t \in {10 * j : j \in 1 .. MaxRecs} |-> CompName(t)]]

\* patchmap: None, or the dictionary marker -> patch id.
PatchMap(in) ==
    IF in.maps \in {"patchGood", "patchBadInner", "patchOnly"}
    THEN [dict |-> [t \in {11 + j : j \in 0 .. MaxRecs} |-> PatchName(t)]]
    ELSE None

\* patchiomap: None, or the dictionary patch id -> (inner id, outer id).
PatchIOMap(in) ==
    IF in.maps \in {"patchGood", "patchBadInner", "patchOnly"}
    THEN [dict |-> [p \in {PatchName(11 + j) : j \in 0 .. MaxRecs} |->
                      [icomp |-> IF in.maps = "patchBadInner" THEN "cX" ELSE "c10",
                       ocomp |-> None]]]
    ELSE None

\* ----------------------------------------------- readTetgen: the parsers

\* The tokens of a data line: what precedes the first '#', split on
\* whitespace.
Tokens(line) ==
    LET commentstart == Find(line, "#")
    IN  SplitWs(IF commentstart # 0 THEN SubSeq(line, 1, commentstart - 1) ELSE line)

\* The first line of the .node file.
NodeHeader(line) ==
    LET tokens == SplitWs(line)
    IN  IF Len(tokens) # 4 THEN [err |-> "AssertionError", n |-> 0]
        ELSE IF \E k \in 1 .. 4 : ~IsInt(tokens[k]) THEN [err |-> "ValueError", n |-> 0]
        ELSE IF PyInt(tokens[1]) <= 0 \/ PyInt(tokens[2]) # 3
             THEN [err |-> "AssertionError", n |-> 0]
        ELSE [err |-> "", n |-> PyInt(tokens[1])]

\* One pass of the loop over the node records: st holds idxshift, the nodes
\* array and the exception raised so far.
NodeBody(line, nodeno, st) ==
    LET tokens == Tokens(line)
    IN  IF Len(tokens) = 0 THEN st
        ELSE IF ~IsInt(tokens[1]) THEN [st EXCEPT !.err = "ValueError"]
        ELSE LET nodeidx == PyInt(tokens[1])
                 shift == IF nodeno = 0 THEN nodeidx ELSE st.idxshift
                 idx2 == NpIndex(nodeidx - shift, st.arr.n)
             IN  IF Len(tokens) < 4 THEN [st EXCEPT !.err = "IndexError"]
                 ELSE IF \E k \in 2 .. 4 : ~IsFloat(tokens[k])
                      THEN [st EXCEPT !.err = "ValueError"]
                 ELSE IF idx2 = -1 THEN [st EXCEPT !.err = "IndexError"]
                 ELSE [st EXCEPT !.idxshift = shift,
                                 !.arr.a[idx2] = <<PyFloat(tokens[2]), PyFloat(tokens[3]),
                                                   PyFloat(tokens[4])>>]

RECURSIVE NodeLoop(_, _, _, _)
NodeLoop(lines, nodeno, nnodes, st) ==
    IF nodeno >= nnodes \/ st.err # "" THEN st
    ELSE NodeLoop(lines, nodeno + 1, nnodes,
                  NodeBody(ReadLine(lines, nodeno + 2), nodeno, st))

\* The attribute in the column that follows four node references.
AttrIdxFour(nodespertet) == 5

\* Line 214: the index of the attribute's column, after the tetrahedron's
\* number and all the node references its record holds.
AttrIdx(nodespertet) == 1 + nodespertet

\* The first line of the .ele file.
EleHeader(line) ==
    LET tokens == SplitWs(line)
        bad(e) == [err |-> e, n |-> 0, attridx |-> 0, attrib |-> 0]
    IN  IF Len(tokens) # 3 THEN bad("AssertionError")
        ELSE IF \E k \in 1 .. 3 : ~IsInt(tokens[k]) THEN bad("ValueError")
        ELSE IF \/ PyInt(tokens[1]) <= 0
                \/ PyInt(tokens[2]) \notin {4, 10}
                \/ PyInt(tokens[3]) \notin {0, 1}
             THEN bad("AssertionError")
        ELSE [err |-> "", n |-> PyInt(tokens[1]), attridx |-> AttrIdx(PyInt(tokens[2])),
              attrib |-> PyInt(tokens[3])]

\* A list indexing that answers "0" where the list has no such item.
ItemOrZero(tokens, i) == IF i < Len(tokens) THEN <<tokens[i + 1]>> ELSE <<"0">>

\* tokens[i] of line 236: the item, or nothing where the index is out of
\* range, which is an IndexError.
Item(tokens, i) == IF i < Len(tokens) THEN <<tokens[i + 1]>> ELSE <<>>

\* One pass of the loop over the element records: st holds the tets array,
\* the list comps and the exception raised so far.
EleBody(line, shift, hdr, st) ==
    LET tokens == Tokens(line)
        attr == Item(tokens, hdr.attridx)
    IN  IF Len(tokens) = 0 THEN st
        ELSE IF ~IsInt(tokens[1]) THEN [st EXCEPT !.err = "ValueError"]
        ELSE LET tetidx == NpIndex(PyInt(tokens[1]) - shift, st.arr.n)
             IN  IF Len(tokens) < 5 THEN [st EXCEPT !.err = "IndexError"]
                 ELSE IF \E k \in 2 .. 5 : ~IsInt(tokens[k])
                      THEN [st EXCEPT !.err = "ValueError"]
                 ELSE IF tetidx = -1 THEN [st EXCEPT !.err = "IndexError"]
                 ELSE IF hdr.attrib = 1 /\ attr = <<>>
                      THEN [st EXCEPT !.err = "IndexError"]
                 ELSE IF hdr.attrib = 1 /\ ~IsInt(attr[1])
                      THEN [st EXCEPT !.err = "ValueError"]
                 ELSE [st EXCEPT
                         !.arr.a[tetidx] = [k \in 1 .. 4 |-> PyInt(tokens[k + 1]) - shift],
                         !.list = IF hdr.attrib = 1
                                  THEN Append(@, PyInt(attr[1]))
                                  ELSE @]

RECURSIVE EleLoop(_, _, _, _, _)
EleLoop(lines, eleno, shift, hdr, st) ==
    IF eleno >= hdr.n \/ st.err # "" THEN st
    ELSE EleLoop(lines, eleno + 1, shift, hdr,
                 EleBody(ReadLine(lines, eleno + 2), shift, hdr, st))

\* No check after the loop.
CompsUnchecked(hdr, list) == TRUE

\* The check after the loop that every element gave an attribute.
CompsComplete(hdr, list) == hdr.attrib = 1 => Len(list) = hdr.n

\* The first line of the .face file.
FaceHeader(line) ==
    LET tokens == SplitWs(line)
        bad(e) == [err |-> e, n |-> 0, attrib |-> 0]
    IN  IF Len(tokens) # 2 THEN bad("AssertionError")
        ELSE IF \E k \in 1 .. 2 : ~IsInt(tokens[k]) THEN bad("ValueError")
        ELSE IF PyInt(tokens[1]) <= 0 \/ PyInt(tokens[2]) \notin {0, 1}
             THEN bad("AssertionError")
        ELSE [err |-> "", n |-> PyInt(tokens[1]), attrib |-> PyInt(tokens[2])]

\* One pass of the loop over the face records.
FaceBody(line, shift, hdr, st) ==
    LET tokens == Tokens(line)
    IN  IF Len(tokens) = 0 THEN st
        ELSE IF ~IsInt(tokens[1]) THEN [st EXCEPT !.err = "ValueError"]
        ELSE LET faceidx == NpIndex(PyInt(tokens[1]) - shift, st.arr.n)
             IN  IF Len(tokens) < 4 THEN [st EXCEPT !.err = "IndexError"]
                 ELSE IF \E k \in 2 .. 4 : ~IsInt(tokens[k])
                      THEN [st EXCEPT !.err = "ValueError"]
                 ELSE IF faceidx = -1 THEN [st EXCEPT !.err = "IndexError"]
                 ELSE IF hdr.attrib = 1 /\ Len(tokens) < 5
                      THEN [st EXCEPT !.err = "IndexError"]
                 ELSE IF hdr.attrib = 1 /\ ~IsInt(tokens[5])
                      THEN [st EXCEPT !.err = "ValueError"]
                 ELSE [st EXCEPT
                         !.arr.a[faceidx] = [k \in 1 .. 3 |-> PyInt(tokens[k + 1]) - shift],
                         !.list = IF hdr.attrib = 1 THEN Append(@, PyInt(tokens[5])) ELSE @]

RECURSIVE FaceLoop(_, _, _, _, _)
FaceLoop(lines, faceno, shift, hdr, st) ==
    IF faceno >= hdr.n \/ st.err # "" THEN st
    ELSE FaceLoop(lines, faceno + 1, shift, hdr,
                  FaceBody(ReadLine(lines, faceno + 2), shift, hdr, st))

\* The check after the loop that every face gave a boundary marker.
PatchesComplete(hdr, list) == hdr.attrib = 1 => Len(list) = hdr.n

\* --------------------------------------------------- files and the engine

\* open(name): the file object joins the open ones; file.close() removes it.
Open(of, name) == of \cup {name}
Close(of, name) == of \ {name}

\* An exception leaves the operation: no statement after it runs.
Raise(exc) == result' = exc /\ pc' = "done"

\* steps.geom.Tetmesh(nodes, tets, faces): the mesh object, with no
\* compartment and no patch yet.
Tetmesh(n, t, f) == [nodes |-> n, tets |-> t, tris |-> f, comps |-> <<>>, patches |-> <<>>]

\* steps.geom.TmComp(id, mesh, tets): the mesh with the new compartment.
TmComp(id, m, members) ==
    [m EXCEPT !.comps = Append(@, [id |-> id, tets |-> members, volsys |-> <<>>])]

\* steps.geom.TmPatch(id, mesh, tris, icomp, ocomp): the mesh with the new patch.
TmPatch(id, m, members, icomp, ocomp) ==
    [m EXCEPT !.patches = Append(@, [id |-> id, tris |-> members, surfsys |-> <<>>,
                                      icomp |-> icomp, ocomp |-> ocomp])]

\* mesh.getComp(id): the compartment of that id, None when there is none.
GetComp(m, id) ==
    IF \E k \in 1 .. Len(m.comps) : m.comps[k].id = id THEN [id |-> id] ELSE None

\* A patch that is given no error for a compartment name that resolves to nothing.
NoResolveErr(m, id) == ""

\* The engine's answer to a patch's compartment name that resolves to none
\* of the mesh's compartments: the resolution fails loudly.
ResolveErr(m, id) == IF GetComp(m, id) = None THEN "ArgErr" ELSE ""

\* ------------------------------------------------ readTetgen: the actions

Locals == <<idxshift, nodes, tets, comps, faces, patches>>

\* The checks that the files exist.
T_CheckFiles ==
    /\ pc = "t_start"
    /\ IF "node" \notin DOMAIN files \/ "ele" \notin DOMAIN files
       THEN result' = "None" /\ pc' = "done"
       ELSE result' = result /\ pc' = "t_node"
    /\ UNCHANGED <<inp, files, openFiles, ret, Locals, mesh, todo, ld>>

\* What reading the .node file gives: the exception raised if any, idxshift
\* and the nodes array.
ReadNodeFile(lines) ==
    LET hdr == NodeHeader(ReadLine(lines, 1))
    IN  IF hdr.err # ""
        THEN [err |-> hdr.err, idxshift |-> 0, arr |-> NpEmpty(0, 3)]
        ELSE NodeLoop(lines, 0, hdr.n,
                      [err |-> "", idxshift |-> 0, arr |-> NpEmpty(hdr.n, 3)])

\* What reading the .ele file gives: the exception raised if any, the tets
\* array and the list comps.
ReadEleFile(lines, shift) ==
    LET hdr == EleHeader(ReadLine(lines, 1))
        st == EleLoop(lines, 0, shift, hdr,
                      [err |-> "", list |-> <<>>, arr |-> NpEmpty(hdr.n, 4)])
    IN  IF hdr.err # "" THEN [err |-> hdr.err, list |-> <<>>, arr |-> NpEmpty(0, 4)]
        ELSE IF st.err = "" /\ ~CompsComplete(hdr, st.list)
             THEN [st EXCEPT !.err = "AssertionError"]
        ELSE st

\* What reading the .face file gives: the exception raised if any, the
\* faces array and the list patches.
ReadFaceFile(lines, shift) ==
    LET hdr == FaceHeader(ReadLine(lines, 1))
        st == FaceLoop(lines, 0, shift, hdr,
                       [err |-> "", list |-> <<>>, arr |-> NpEmpty(hdr.n, 3)])
    IN  IF hdr.err # "" THEN [err |-> hdr.err, list |-> <<>>, arr |-> NpEmpty(0, 3)]
        ELSE IF st.err = "" /\ ~PatchesComplete(hdr, st.list)
             THEN [st EXCEPT !.err = "AssertionError"]
        ELSE st

\* The .node file is opened, read and closed.
T_ReadNode ==
    /\ pc = "t_node"
    /\ LET st == ReadNodeFile(files["node"])
       IN  IF st.err # ""
           THEN /\ Raise(st.err)
                /\ openFiles' = Open(openFiles, "node")
                /\ UNCHANGED <<idxshift, nodes>>
           ELSE /\ idxshift' = st.idxshift
                /\ \E g \in Garbage : nodes' = Settle(st.arr, g)
                /\ openFiles' = Close(Open(openFiles, "node"), "node")
                /\ pc' = "t_ele"
                /\ result' = result
    /\ UNCHANGED <<inp, files, ret, tets, comps, faces, patches, mesh, todo, ld>>

\* The .ele file is opened, read and closed.
T_ReadEle ==
    /\ pc = "t_ele"
    /\ LET st == ReadEleFile(files["ele"], idxshift)
       IN  IF st.err # ""
           THEN /\ Raise(st.err)
                /\ openFiles' = Open(openFiles, "ele")
                /\ UNCHANGED <<tets, comps>>
           ELSE /\ \E g \in Garbage : tets' = Settle(st.arr, g)
                /\ comps' = st.list
                /\ openFiles' = Close(Open(openFiles, "ele"), "ele")
                /\ pc' = "t_face"
                /\ result' = result
    /\ UNCHANGED <<inp, files, ret, idxshift, nodes, faces, patches, mesh, todo, ld>>

\* The .face file, when there is one, is opened, read and closed.
T_ReadFace ==
    /\ pc = "t_face"
    /\ IF "face" \notin DOMAIN files
       THEN /\ faces' = None
            /\ patches' = <<>>
            /\ pc' = "t_mesh"
            /\ UNCHANGED <<result, openFiles>>
       ELSE LET st == ReadFaceFile(files["face"], idxshift)
            IN  IF st.err # ""
                THEN /\ Raise(st.err)
                     /\ openFiles' = Open(openFiles, "face")
                     /\ UNCHANGED <<faces, patches>>
                ELSE /\ \E g \in Garbage : faces' = Settle(st.arr, g)
                     /\ patches' = st.list
                     /\ openFiles' = Close(Open(openFiles, "face"), "face")
                     /\ pc' = "t_mesh"
                     /\ result' = result
    /\ UNCHANGED <<inp, files, ret, idxshift, nodes, tets, comps, mesh, todo, ld>>

\* The arrays are flattened and handed to the engine.
T_Construct ==
    /\ pc = "t_mesh"
    /\ IF faces = None
       THEN Raise("AttributeError") /\ mesh' = mesh
       ELSE /\ mesh' = Tetmesh(Flatten(nodes), Flatten(tets), Flatten(faces))
            /\ pc' = "t_annot"
            /\ result' = result
    /\ UNCHANGED <<inp, files, openFiles, ret, Locals, todo, ld>>

\* set(list): the distinct values of a list.
Uniq(list) == {list[k] : k \in 1 .. Len(list)}

\* MapCovers with the check left out.
MapCoversUnchecked(uniq, dict) == TRUE

\* The check that a dictionary has every tag as a key.
MapCovers(uniq, dict) == \A i \in uniq : i \in DOMAIN dict

\* [x for x in xrange(0, n) if list[x] == i]
AllWith(list, i, n) ==
    SelectSeq([x \in 1 .. n |-> x - 1], LAMBDA x : list[x + 1] = i)

\* Compartment annotation: whether it runs, and the check of compmap.
T_CheckComps ==
    /\ pc = "t_annot"
    /\ IF Len(comps) > 0 /\ CompMap(inp) # None
       THEN IF MapCovers(Uniq(comps), CompMap(inp).dict)
            THEN todo' = Uniq(comps) /\ pc' = "t_mkcomp" /\ result' = result
            ELSE Raise("AssertionError") /\ todo' = todo
       ELSE pc' = "t_return" /\ UNCHANGED <<result, todo>>
    /\ UNCHANGED <<inp, files, openFiles, ret, Locals, mesh, ld>>

\* One pass of the loop that creates the compartments.
T_CreateComp ==
    /\ pc = "t_mkcomp"
    /\ \E i \in todo :
         IF i \notin DOMAIN CompMap(inp).dict
         THEN Raise("KeyError") /\ UNCHANGED <<mesh, todo>>
         ELSE IF Len(comps) < tets.n
         THEN Raise("IndexError") /\ UNCHANGED <<mesh, todo>>
         ELSE /\ mesh' = TmComp(CompMap(inp).dict[i], mesh, AllWith(comps, i, tets.n))
              /\ todo' = todo \ {i}
              /\ UNCHANGED <<pc, result>>
    /\ UNCHANGED <<inp, files, openFiles, ret, Locals, ld>>

\* Patch annotation: whether it runs, and the check of patchmap.
T_CheckPatches ==
    /\ pc = "t_mkcomp"
    /\ todo = {}
    /\ IF Len(patches) > 0 /\ PatchMap(inp) # None /\ PatchIOMap(inp) # None
       THEN IF MapCovers(Uniq(patches), PatchMap(inp).dict)
            THEN todo' = Uniq(patches) /\ pc' = "t_mkpatch" /\ result' = result
            ELSE Raise("AssertionError") /\ todo' = todo
       ELSE pc' = "t_return" /\ UNCHANGED <<result, todo>>
    /\ UNCHANGED <<inp, files, openFiles, ret, Locals, mesh, ld>>

\* One pass of the loop that creates the patches.
T_CreatePatch ==
    /\ pc = "t_mkpatch"
    /\ \E i \in todo :
         LET patch_n == PatchMap(inp).dict[i]
             io == PatchIOMap(inp).dict[patch_n]
             icomp == GetComp(mesh, io.icomp)
             ocomp == IF io.ocomp # None THEN GetComp(mesh, io.ocomp.id) ELSE None
         IN  IF patch_n \notin DOMAIN PatchIOMap(inp).dict
             THEN Raise("KeyError") /\ UNCHANGED <<mesh, todo>>
             ELSE IF icomp = None \/ (io.ocomp # None /\ ocomp = None)
             THEN Raise("AssertionError") /\ UNCHANGED <<mesh, todo>>
             ELSE /\ mesh' = TmPatch(patch_n, mesh, AllWith(patches, i, faces.n),
                                     icomp, ocomp)
                  /\ todo' = todo \ {i}
                  /\ UNCHANGED <<pc, result>>
    /\ UNCHANGED <<inp, files, openFiles, ret, Locals, ld>>

\* The tuple (tetmesh, comps, patches) is returned.
T_Return ==
    /\ pc = "t_return" \/ (pc = "t_mkpatch" /\ todo = {})
    /\ ret' = [comps |-> IF Len(comps) = 0 THEN None ELSE [list |-> comps],
               patches |-> IF Len(patches) = 0 THEN None ELSE [list |-> patches]]
    /\ result' = "ok"
    /\ pc' = "done"
    /\ UNCHANGED <<inp, files, openFiles, Locals, mesh, todo, ld>>

InitTetgen ==
    /\ pc = "t_start"
    /\ inp \in TetgenInputs
    /\ files = TetgenFiles(inp)
    /\ openFiles = {}
    /\ result = ""
    /\ ret = None
    /\ idxshift = 0
    /\ nodes = Unbound
    /\ tets = Unbound
    /\ comps = <<>>
    /\ faces = Unbound
    /\ patches = <<>>
    /\ mesh = None
    /\ todo = {}
    /\ ld = Unbound

NextTetgen ==
    \/ T_CheckFiles
    \/ T_ReadNode
    \/ T_ReadEle
    \/ T_ReadFace
    \/ T_Construct
    \/ T_CheckComps
    \/ T_CreateComp
    \/ T_CheckPatches
    \/ T_CreatePatch
    \/ T_Return

SpecTetgen == InitTetgen /\ [][NextTetgen]_vars

\* ------------------------------------------- more of Python's strings

Max(a, b) == IF a > b THEN a ELSE b
Min(a, b) == IF a < b THEN a ELSE b

\* s[a:b] for a >= 0; a negative b counts from the end of s.
Slice(s, a, b) ==
    LET end == IF b < 0 THEN Max(Len(s) + b, 0) ELSE Min(b, Len(s))
    IN  SubSeq(s, Min(a, Len(s)) + 1, end)

\* s[-n:]
Suffix(s, n) == SubSeq(s, Max(Len(s) - n, 0) + 1, Len(s))

\* The first position at or after i whose character is not whitespace.
RECURSIVE SkipWs(_, _)
SkipWs(s, i) == IF i <= Len(s) /\ IsSpace(Ch(s, i)) THEN SkipWs(s, i + 1) ELSE i

\* The last position at or before i whose character is not whitespace.
RECURSIVE SkipWsBack(_, _)
SkipWsBack(s, i) == IF i >= 1 /\ IsSpace(Ch(s, i)) THEN SkipWsBack(s, i - 1) ELSE i

\* s.rstrip() and s.strip()
RStrip(s) == SubSeq(s, 1, SkipWsBack(s, Len(s)))
Strip(s) == SubSeq(s, SkipWs(s, 1), SkipWsBack(s, Len(s)))

\* s.strip(c) for a one-character c.
RECURSIVE SkipCh(_, _, _)
SkipCh(s, c, i) == IF i <= Len(s) /\ Ch(s, i) = c THEN SkipCh(s, c, i + 1) ELSE i

RECURSIVE SkipChBack(_, _, _)
SkipChBack(s, c, i) == IF i >= 1 /\ Ch(s, i) = c THEN SkipChBack(s, c, i - 1) ELSE i

StripCh(s, c) == SubSeq(s, SkipCh(s, c, 1), SkipChBack(s, c, Len(s)))

\* The first position at or after i where sep occurs in s; 0 for none.
RECURSIVE FindSep(_, _, _)
FindSep(s, sep, i) ==
    IF i + Len(sep) - 1 > Len(s) THEN 0
    ELSE IF SubSeq(s, i, i + Len(sep) - 1) = sep THEN i
    ELSE FindSep(s, sep, i + 1)

\* s.split(sep): the pieces of s between the occurrences of sep; one piece,
\* s itself, when sep does not occur (so ''.split(',') is ['']).
RECURSIVE SplitFrom(_, _, _, _)
SplitFrom(s, sep, i, acc) ==
    LET j == FindSep(s, sep, i)
    IN  IF j = 0 THEN Append(acc, SubSeq(s, i, Len(s)))
        ELSE SplitFrom(s, sep, j + Len(sep), Append(acc, SubSeq(s, i, j - 1)))

Split(s, sep) == SplitFrom(s, sep, 1, <<>>)

\* int(s) and float(s) leave out the whitespace around the number.
IsIntWs(s) == IsInt(Strip(s))
PyIntWs(s) == PyInt(Strip(s))

\* sep.join(items)
RECURSIVE Join(_, _)
Join(items, sep) ==
    IF Len(items) = 0 THEN ""
    ELSE IF Len(items) = 1 THEN items[1]
    ELSE items[1] \o sep \o Join(Tail(items), sep)

\* str(t) of a tuple t of two items or more, given the repr of its items.
StrTuple(items) == "(" \o Join(items, ", ") \o ")"

\* The repr of each float of seq, the str of each int of seq, and the items
\* idx*w .. idx*w + w - 1 of a flattened array.
Reprs(seq) == [k \in 1 .. Len(seq) |-> Repr(seq[k])]
IntStrs(seq) == [k \in 1 .. Len(seq) |-> ToString(seq[k])]
Row(flat, idx, w) == SubSeq(flat, idx * w + 1, idx * w + w)

\* ------------------------------------------------ saveXML: the mesh saved

\* str(tetmesh) of a Tetmesh object, and of an object of another class.
TetmeshStr == "<steps.geom.Tetmesh; proxy of <Swig Object> >"
OtherStr == "<steps.geom.Geom; proxy of <Swig Object> >"

LabelLists == {<<>>, <<"a">>, <<"a", "b">>}

\* The ascending sequence of the indices idx in lo .. n - 1 with owner[idx + 1] = c.
RECURSIVE MembersFrom(_, _, _, _)
MembersFrom(owner, c, lo, n) ==
    IF lo >= n THEN <<>>
    ELSE (IF owner[lo + 1] = c THEN <<lo>> ELSE <<>>) \o MembersFrom(owner, c, lo + 1, n)

\* The meshes saved: nv vertices, nt tetrahedra, nf triangles, ncomps
\* compartments "c1", "c2" of which compOf gives each tetrahedron its own
\* (0 for none), npatches patches "p1" likewise over the triangles.  The
\* patch has "c1" inside and, when there is a "c2", "c2" outside; "c1"
\* carries the volume systems, two of them when there is a "c2".
XmlInputs ==
    { in \in UNION { [ objstr : {TetmeshStr, OtherStr},
                       nv : {MaxRecs},
                       nt : {nt},
                       nf : {nf},
                       ncomps : {nc},
                       compOf : [1 .. nt -> 0 .. nc],
                       volsys : IF nc = 0 THEN {<<>>}
                                ELSE IF nc = 1 THEN LabelLists ELSE {<<"a", "b">>},
                       npatches : {np},
                       patchOf : [1 .. nf -> 0 .. np],
                       surfsys : IF np = 0 THEN {<<>>} ELSE {<<>>, <<"s">>},
                       ocomp : {np = 1 /\ nc = 2},
                       tamper : {"pending"} ]
                     : nt \in 1 .. MaxRecs, nf \in 1 .. MaxRecs,
                       nc \in 0 .. 2, np \in 0 .. 1 }
      : /\ in.ncomps = 0 => in.npatches = 0
        /\ in.objstr = OtherStr => (in.nt = 1 /\ in.nf = 1 /\ in.ncomps = 0) }

\* The derived geometry the engine holds for nf triangles and nt tetrahedra,
\* as the flattened arrays of the full constructor.
Geometry(nf, nt) ==
    [ triareas |-> [k \in 1 .. nf |-> k],
      trinorms |-> [k \in 1 .. 3 * nf |-> IF k % 3 = 0 THEN 2 ELSE 0],
      tritetns |-> [k \in 1 .. 2 * nf |-> IF k % 2 = 0 THEN -1 ELSE 0],
      tetvols |-> [k \in 1 .. nt |-> k + 2],
      tetbarycs |-> [k \in 1 .. 3 * nt |-> 1],
      tettrins |-> [k \in 1 .. 4 * nt |-> (k - 1) % nf],
      tettetns |-> [k \in 1 .. 4 * nt |-> IF k % 4 = 1 THEN (k \div 4 + 1) % nt ELSE -1] ]

\* The engine's state for the mesh of scenario in.
MeshOf(in) ==
    [ nodes |-> [k \in 1 .. 3 * in.nv |-> (k + 1) % 4],
      tets |-> [k \in 1 .. 4 * in.nt |-> (k + (k - 1) \div 4) % in.nv],
      tris |-> [k \in 1 .. 3 * in.nf |-> (k + (k - 1) \div 3) % in.nv],
      comps |-> [c \in 1 .. in.ncomps |->
                    [id |-> "c" \o ToString(c),
                     tets |-> MembersFrom(in.compOf, c, 0, in.nt),
                     volsys |-> IF c = 1 THEN in.volsys ELSE <<>>]],
      patches |-> [p \in 1 .. in.npatches |->
                    [id |-> "p" \o ToString(p),
                     tris |-> MembersFrom(in.patchOf, p, 0, in.nf),
                     surfsys |-> in.surfsys,
                     icomp |-> [id |-> "c1"],
                     ocomp |-> IF in.ocomp THEN [id |-> "c2"] ELSE None]],
      geom |-> Geometry(in.nf, in.nt) ]

\* The engine's accessors saveXML calls.
CountVertices(m) == Len(m.nodes) \div 3
CountTris(m) == Len(m.tris) \div 3
CountTets(m) == Len(m.tets) \div 4

\* tetmesh.getTetComp(tet) and tetmesh.getTriPatch(tri): the compartment /
\* patch the element belongs to, None when it belongs to none.
GetTetComp(m, tet) ==
    IF \E c \in 1 .. Len(m.comps) : \E k \in 1 .. Len(m.comps[c].tets) : m.comps[c].tets[k] = tet
    THEN m.comps[CHOOSE c \in 1 .. Len(m.comps) :
                    \E k \in 1 .. Len(m.comps[c].tets) : m.comps[c].tets[k] = tet]
    ELSE None

GetTriPatch(m, tri) ==
    IF \E p \in 1 .. Len(m.patches) : \E k \in 1 .. Len(m.patches[p].tris) : m.patches[p].tris[k] = tri
    THEN m.patches[CHOOSE p \in 1 .. Len(m.patches) :
                    \E k \in 1 .. Len(m.patches[p].tris) : m.patches[p].tris[k] = tri]
    ELSE None

\* ------------------------------------------------ saveXML: what it writes

\* str(t).strip(')').strip('(') of the tuple the engine returns.
TupleText(items) == StripCh(StripCh(StrTuple(items), ")"), "(")

\* The three lines of one node, triangle or tetrahedron.
XmlElem(tag, idx, inner, text) ==
    << "\t\t<" \o tag \o " idx = \"" \o ToString(idx) \o "\">\n",
       "\t\t\t<" \o inner \o ">" \o text \o "</" \o inner \o ">\n",
       "\t\t</" \o tag \o ">\n" >>

RECURSIVE XmlNodeLoop(_, _)
XmlNodeLoop(m, node) ==
    IF node >= CountVertices(m) THEN <<>>
    ELSE XmlElem("node", node, "coords", TupleText(Reprs(Row(m.nodes, node, 3))))
         \o XmlNodeLoop(m, node + 1)

RECURSIVE XmlTriLoop(_, _)
XmlTriLoop(m, tri) ==
    IF tri >= CountTris(m) THEN <<>>
    ELSE XmlElem("tri", tri, "nodes", TupleText(IntStrs(Row(m.tris, tri, 3))))
         \o XmlTriLoop(m, tri + 1)

RECURSIVE XmlTetLoop(_, _)
XmlTetLoop(m, tet) ==
    IF tet >= CountTets(m) THEN <<>>
    ELSE XmlElem("tet", tet, "nodes", TupleText(IntStrs(Row(m.tets, tet, 4))))
         \o XmlTetLoop(m, tet + 1)

\* The items, each followed by a blank, as the text file's lines hold them.
RECURSIVE Spaced(_)
Spaced(items) == IF Len(items) = 0 THEN "" ELSE items[1] \o " " \o Spaced(Tail(items))

\* The text file's line of one triangle: area, normal, tetrahedron neighbours.
TxtTri(m, tri) ==
    Spaced(<<Repr(m.geom.triareas[tri + 1])>>
           \o Reprs(Row(m.geom.trinorms, tri, 3))
           \o IntStrs(Row(m.geom.tritetns, tri, 2))) \o "\n"

\* The text file's line of one tetrahedron: volume, barycenter, triangle
\* neighbours, tetrahedron neighbours.
TxtTet(m, tet) ==
    Spaced(<<Repr(m.geom.tetvols[tet + 1])>>
           \o Reprs(Row(m.geom.tetbarycs, tet, 3))
           \o IntStrs(Row(m.geom.tettrins, tet, 4))
           \o IntStrs(Row(m.geom.tettetns, tet, 4))) \o "\n"

\* What saveXML writes to the .xml file up to the compartments.
XmlMesh(m) ==
    << "<?xml version=\"1.0\" encoding=\"ISO-8859-1\"?>\n", "<tetmesh>\n",
       "\t<nodes size = \"" \o ToString(CountVertices(m)) \o "\">\n" >>
    \o XmlNodeLoop(m, 0)
    \o << "\t</nodes>\n",
          "\t<triangles size = \"" \o ToString(CountTris(m)) \o "\">\n" >>
    \o XmlTriLoop(m, 0)
    \o << "\t</triangles>\n",
          "\t<tetrahedrons size = \"" \o ToString(CountTets(m)) \o "\">\n" >>
    \o XmlTetLoop(m, 0)
    \o << "\t</tetrahedrons>\n" >>

\* What saveXML writes to the .txt file.
TxtMesh(m) ==
    << ToString(CountVertices(m)) \o "\n", "\n", ToString(CountTris(m)) \o "\n" >>
    \o [k \in 1 .. CountTris(m) |-> TxtTri(m, k - 1)]
    \o << "\n", ToString(CountTets(m)) \o "\n" >>
    \o [k \in 1 .. CountTets(m) |-> TxtTet(m, k - 1)]

\* The text of a loop that writes ',' before every item that differs from
\* the first item, and then the item.
RECURSIVE CommaLoop(_, _)
CommaLoop(items, k) ==
    IF k > Len(items) THEN ""
    ELSE (IF items[k] # items[1] THEN "," ELSE "") \o items[k] \o CommaLoop(items, k + 1)

\* The members saveXML collects for the entry c of ids: the elements, in
\* ascending order, whose owner (owners[idx + 1], None for no owner) has
\* the id that is met first at c.
RECURSIVE Collect(_, _, _, _)
Collect(owners, ids, c, idx) ==
    IF idx >= Len(owners) THEN <<>>
    ELSE LET own == owners[idx + 1]
             hit == own # None /\ ids[c] = own.id
                    /\ \A b \in 1 .. c - 1 : ids[b] # own.id
         IN  (IF hit THEN <<idx>> ELSE <<>>) \o Collect(owners, ids, c, idx + 1)

\* The lines of the compartments section.
XmlComps(m) ==
    LET ids == [c \in 1 .. Len(m.comps) |-> m.comps[c].id]
        owners == [k \in 1 .. CountTets(m) |-> GetTetComp(m, k - 1)]
        Entry(c) ==
            << "\t\t<comp idx = \"" \o ToString(c - 1) \o "\">\n",
               "\t\t\t<id>" \o ids[c] \o "</id>\n",
               "\t\t\t<volsys>" \o CommaLoop(m.comps[c].volsys, 1) \o "</volsys>\n",
               "\t\t\t<tets>"
                 \o CommaLoop(IntStrs(Collect(owners, ids, c, 0)), 1)
                 \o "</tets>\n",
               "\t\t</comp>\n" >>
        RECURSIVE Entries(_)
        Entries(c) == IF c > Len(m.comps) THEN <<>> ELSE Entry(c) \o Entries(c + 1)
    IN  << "\t<compartments size = \"" \o ToString(Len(m.comps)) \o "\">\n" >>
        \o Entries(1)
        \o << "\t</compartments>\n" >>

\* The lines of the patches section and the last line of the file.
XmlPatches(m) ==
    LET ids == [p \in 1 .. Len(m.patches) |-> m.patches[p].id]
        owners == [k \in 1 .. CountTris(m) |-> GetTriPatch(m, k - 1)]
        Entry(p) ==
            << "\t\t<patch idx = \"" \o ToString(p - 1) \o "\">\n",
               "\t\t\t<id>" \o ids[p] \o "</id>\n",
               "\t\t\t<surfsys>" \o CommaLoop(m.patches[p].surfsys, 1) \o "</surfsys>\n",
               "\t\t\t<icomp>" \o m.patches[p].icomp.id \o "</icomp>\n",
               "\t\t\t<ocomp>"
                 \o (IF m.patches[p].ocomp = None THEN "null" ELSE m.patches[p].ocomp.id)
                 \o "</ocomp>\n",
               "\t\t\t<tris>"
                 \o CommaLoop(IntStrs(Collect(owners, ids, p, 0)), 1)
                 \o "</tris>\n",
               "\t\t</patch>\n" >>
        RECURSIVE Entries(_)
        Entries(p) == IF p > Len(m.patches) THEN <<>> ELSE Entry(p) \o Entries(p + 1)
    IN  << "\t<patches size = \"" \o ToString(Len(m.patches)) \o "\">\n" >>
        \o Entries(1)
        \o << "\t</patches>\n", "</tetmesh>" >>

\* ------------------------------------------------- saveXML: the actions

\* A test that lets every object through.
AnyObject(str) == TRUE

\* Line 507: the object's text, from its second character on, names the
\* class steps.geom.Tetmesh.
IsTetmesh(str) == Slice(str, 1, 19) = "steps.geom.Tetmesh"

\* Lines 507-509: the test on the object's text.
X_SaveCheck ==
    /\ pc = "s_start"
    /\ IF ~IsTetmesh(inp.objstr)
       THEN result' = "0" /\ pc' = "done"
       ELSE result' = result /\ pc' = "s_open"
    /\ UNCHANGED <<inp, files, openFiles, ret, Locals, mesh, todo, ld>>

\* Lines 512-513: both files are created, or emptied, and open.
X_SaveOpen ==
    /\ pc = "s_open"
    /\ files' = [n \in DOMAIN files \cup {"xml", "txt"} |-> <<>>]
    /\ openFiles' = Open(Open(openFiles, "xml"), "txt")
    /\ pc' = "s_mesh"
    /\ UNCHANGED <<inp, result, ret, Locals, mesh, todo, ld>>

\* Lines 515-578: nodes, triangles and tetrahedra.
X_SaveMesh ==
    /\ pc = "s_mesh"
    /\ files' = [files EXCEPT !["xml"] = @ \o XmlMesh(mesh), !["txt"] = @ \o TxtMesh(mesh)]
    /\ pc' = "s_comps"
    /\ UNCHANGED <<inp, openFiles, result, ret, Locals, mesh, todo, ld>>

\* Lines 586-623: the compartments.
X_SaveComps ==
    /\ pc = "s_comps"
    /\ files' = [files EXCEPT !["xml"] = @ \o XmlComps(mesh)]
    /\ pc' = "s_patches"
    /\ UNCHANGED <<inp, openFiles, result, ret, Locals, mesh, todo, ld>>

\* Lines 625-672: the patches and the closing tag.
X_SavePatches ==
    /\ pc = "s_patches"
    /\ files' = [files EXCEPT !["xml"] = @ \o XmlPatches(mesh)]
    /\ pc' = "s_close"
    /\ UNCHANGED <<inp, openFiles, result, ret, Locals, mesh, todo, ld>>

\* Lines 674-675: both files are closed and saveXML returns.
X_SaveClose ==
    /\ pc = "s_close"
    /\ openFiles' = Close(Close(openFiles, "xml"), "txt")
    /\ pc' = "saved"
    /\ UNCHANGED <<inp, files, result, ret, Locals, mesh, todo, ld>>

\* -------------------------------------- between saveXML and loadXML

\* The position of the first line of lines that is the text line.
IndexOf(lines, line) ==
    CHOOSE k \in 1 .. Len(lines) :
        lines[k] = line /\ \A j \in 1 .. k - 1 : lines[j] # line

\* What may happen to the files before they are loaded: nothing; the .txt
\* file is removed; the .txt file declares one triangle / one tetrahedron
\* more; the .xml file loses its last line, has another first line, another
\* root tag, another text in the nodes' opening tag, another closing tag
\* for the nodes, or its triangles after its tetrahedra.
XmlDeviations == {"noEnd", "firstLine", "root", "openTag", "closeTag", "reorder"}

\* A patch entry of the .xml file names, as its inner or as its outer
\* compartment, a compartment the file does not hold.
NameDeviations == {"badIcomp", "badOcomp"}
Tampers == {"none", "noTxt", "txtTris", "txtTets"} \cup XmlDeviations \cup NameDeviations

Tamper(fs, in, t) ==
    LET xml == fs["xml"]
        txt == fs["txt"]
        SetLine(lines, k, line) == [lines EXCEPT ![k] = line]
        tri == IndexOf(xml, "\t<triangles size = \"" \o ToString(in.nf) \o "\">\n")
        tet == IndexOf(xml, "\t<tetrahedrons size = \"" \o ToString(in.nt) \o "\">\n")
        cmp == IndexOf(xml, "\t<compartments size = \"" \o ToString(in.ncomps) \o "\">\n")
        pat == IndexOf(xml, "\t<patches size = \"" \o ToString(in.npatches) \o "\">\n")
    IN  CASE t = "none" -> fs
          [] t = "badIcomp" ->
                [fs EXCEPT !["xml"] = SetLine(xml, pat + 4, "\t\t\t<icomp>cX</icomp>\n")]
          [] t = "badOcomp" ->
                [fs EXCEPT !["xml"] = SetLine(xml, pat + 5, "\t\t\t<ocomp>cX</ocomp>\n")]
          [] t = "noTxt" -> [n \in DOMAIN fs \ {"txt"} |-> fs[n]]
          [] t = "txtTris" ->
                [fs EXCEPT !["txt"] = SetLine(txt, 3, ToString(in.nf + 1) \o "\n")]
          [] t = "txtTets" ->
                [fs EXCEPT !["txt"] = SetLine(txt, in.nf + 5, ToString(in.nt + 1) \o "\n")]
          [] t = "noEnd" -> [fs EXCEPT !["xml"] = SubSeq(xml, 1, Len(xml) - 1)]
          [] t = "firstLine" -> [fs EXCEPT !["xml"] = SetLine(xml, 1, "<!-- mesh -->\n")]
          [] t = "root" -> [fs EXCEPT !["xml"] = SetLine(xml, 2, "<mesh>\n")]
          [] t = "openTag" ->
                [fs EXCEPT !["xml"] =
                    SetLine(xml, 3, "\t<verts size = \"" \o ToString(in.nv) \o "\">\n")]
          [] t = "closeTag" ->
                [fs EXCEPT !["xml"] = SetLine(xml, IndexOf(xml, "\t</nodes>\n"), "\t</node>\n")]
          [] t = "reorder" ->
                [fs EXCEPT !["xml"] =
                    SubSeq(xml, 1, tri - 1) \o SubSeq(xml, tet, cmp - 1)
                    \o SubSeq(xml, tri, tet - 1) \o SubSeq(xml, cmp, Len(xml))]

\* The saving program has ended and the engine's mesh with it; the files
\* stay, as they are or changed, for the program that loads them.
X_Between ==
    /\ pc = "saved"
    /\ \E t \in Tampers :
          /\ t \in NameDeviations => inp.npatches > 0
          /\ files' = Tamper(files, inp, t)
          /\ inp' = [inp EXCEPT !.tamper = t]
    /\ mesh' = None
    /\ pc' = "l_start"
    /\ UNCHANGED <<openFiles, result, ret, Locals, todo, ld>>

\* ------------------------------------------------ loadXML: the parsing

\* The opening tag of a section, read at line xl: the checks of lines
\* 720-722 (and 739-741, 770-772, 806-808, 834-836) and the size it holds.
SectionHead(xml, xl, minlen, off) ==
    LET info == Strip(ReadLine(xml, xl))
    IN  IF ~(Len(info) > minlen) THEN [err |-> "AssertionError"]
        ELSE IF Suffix(info, 2) # "\">" THEN [err |-> "AssertionError"]
        ELSE IF ~IsInt(Slice(info, off, -2)) THEN [err |-> "ValueError"]
        ELSE [err |-> "", n |-> PyInt(Slice(info, off, -2))]

\* The assertion that the size parsed from the .xml file is the size the
\* line of the .txt file declares.
CountUnchecked(n, line) == TRUE
CountMatches(n, line) == n = PyIntWs(line)

\* The size check against the .txt file, whose count is read at line tl.
TxtCount(havetxt, txt, tl, n) ==
    IF ~havetxt THEN ""
    ELSE IF ~IsIntWs(ReadLine(txt, tl)) THEN "ValueError"
    ELSE IF ~CountMatches(n, ReadLine(txt, tl)) THEN "AssertionError"
    ELSE ""

\* The error of converting toks[k], .. , toks[w] in turn, the first nfl of
\* them with float and the others with int; "" when all convert.
RECURSIVE ConvErr(_, _, _, _)
ConvErr(toks, k, w, nfl) ==
    IF k > w THEN ""
    ELSE IF k > Len(toks) THEN "IndexError"
    ELSE IF ~(IF k <= nfl THEN IsFloat(toks[k]) ELSE IsInt(toks[k])) THEN "ValueError"
    ELSE ConvErr(toks, k + 1, w, nfl)

Conv(toks, w, nfl) ==
    [k \in 1 .. w |-> IF k <= nfl THEN PyFloat(toks[k]) ELSE PyInt(toks[k])]

\* The shapes of the three element lists: the offset of the index in the
\* entry's opening tag, the inner tag, the items of the tuple and how many
\* of them are floats, the entry's closing tag, the tokens of the entry's
\* line in the .txt file (0: no line).
NodeShape == [off |-> 13, inner |-> "coords", w |-> 3, nfl |-> 3, close |-> "</node>", ntok |-> 0]
TriShape == [off |-> 12, inner |-> "nodes", w |-> 3, nfl |-> 0, close |-> "</tri>", ntok |-> 6]
TetShape == [off |-> 12, inner |-> "nodes", w |-> 4, nfl |-> 0, close |-> "</tet>", ntok |-> 12]

\* One pass of the loop over the entries of a list (lines 726-733, 752-765,
\* 783-797): st holds the positions in both files and what was read.
ElemBody(xml, txt, havetxt, sh, i, st) ==
    LET idxtemp == Strip(ReadLine(xml, st.xl))
        temp == Strip(ReadLine(xml, st.xl + 1))
        lo == Len(sh.inner) + 2
        toks == Split(Slice(temp, lo, -(lo + 1)), ", ")
        line == Split(RStrip(ReadLine(txt, st.tl)), " ")
        Fail(e) == [st EXCEPT !.err = e]
    IN  IF ~IsInt(Slice(idxtemp, sh.off, -2)) THEN Fail("ValueError")
        ELSE IF PyInt(Slice(idxtemp, sh.off, -2)) # i THEN Fail("AssertionError")
        ELSE IF ~(/\ Slice(temp, 0, lo) = "<" \o sh.inner \o ">"
                  /\ Suffix(temp, lo + 1) = "</" \o sh.inner \o ">")
        THEN Fail("AssertionError")
        ELSE IF ConvErr(toks, 1, sh.w, sh.nfl) # "" THEN Fail(ConvErr(toks, 1, sh.w, sh.nfl))
        ELSE IF Strip(ReadLine(xml, st.xl + 2)) # sh.close THEN Fail("AssertionError")
        ELSE IF ~havetxt \/ sh.ntok = 0
        THEN [st EXCEPT !.xl = @ + 3, !.out = @ \o Conv(toks, sh.w, sh.nfl)]
        ELSE IF Len(line) # sh.ntok THEN Fail("AssertionError")
        ELSE IF ConvErr(line, 1, sh.ntok, 4) # "" THEN Fail(ConvErr(line, 1, sh.ntok, 4))
        ELSE [st EXCEPT !.xl = @ + 3, !.tl = @ + 1,
                        !.out = @ \o Conv(toks, sh.w, sh.nfl),
                        !.geo = Append(@, Conv(line, sh.ntok, 4))]

RECURSIVE ElemLoop(_, _, _, _, _, _, _)
ElemLoop(xml, txt, havetxt, sh, i, n, st) ==
    IF i >= n \/ st.err # "" THEN st
    ELSE ElemLoop(xml, txt, havetxt, sh, i + 1, n, ElemBody(xml, txt, havetxt, sh, i, st))

\* A whole list: its opening tag, the count of the .txt file (skip lines
\* come before it there), its entries and its closing tag.
ReadList(xml, txt, havetxt, xl, tl, minlen, off, skip, sh, close) ==
    LET head == SectionHead(xml, xl, minlen, off)
        cnt == TxtCount(havetxt, txt, tl + skip, head.n)
        tl1 == IF havetxt THEN tl + skip + 1 ELSE tl
        st == ElemLoop(xml, txt, havetxt, sh, 0, head.n,
                       [err |-> "", xl |-> xl + 1, tl |-> tl1, out |-> <<>>, geo |-> <<>>])
    IN  IF head.err # "" THEN [err |-> head.err]
        ELSE IF cnt # "" THEN [err |-> cnt]
        ELSE IF st.err # "" THEN [err |-> st.err]
        ELSE IF Strip(ReadLine(xml, st.xl)) # close THEN [err |-> "AssertionError"]
        ELSE [st EXCEPT !.xl = @ + 1]

\* Column c .. d of the rows read from the .txt file, flattened.
RECURSIVE Columns(_, _, _)
Columns(geo, c, d) ==
    IF Len(geo) = 0 THEN <<>> ELSE SubSeq(geo[1], c, d) \o Columns(Tail(geo), c, d)

\* steps.geom.Tetmesh(nodes, tris, triareas, trinorms, tritetns, tets,
\* tetvols, tetbarycs, tettrins, tettetns): the mesh object that holds the
\* derived geometry it was given.
TetmeshFull(n, f, fa, fn, ft, t, tv, tb, tf, tt) ==
    [ nodes |-> n, tets |-> t, tris |-> f, comps |-> <<>>, patches |-> <<>>,
      geom |-> [triareas |-> fa, trinorms |-> fn, tritetns |-> ft, tetvols |-> tv,
                tetbarycs |-> tb, tettrins |-> tf, tettetns |-> tt] ]

\* comp.addVolsys(v) and patch.addSurfsys(s) on the object created last.
AddVolsys(m, v) == [m EXCEPT !.comps[Len(m.comps)].volsys = Append(@, v)]
AddSurfsys(m, s) == [m EXCEPT !.patches[Len(m.patches)].surfsys = Append(@, s)]

RECURSIVE AddVolsysAll(_, _)
AddVolsysAll(m, labels) ==
    IF Len(labels) = 0 THEN m ELSE AddVolsysAll(AddVolsys(m, labels[1]), Tail(labels))

RECURSIVE AddSurfsysAll(_, _)
AddSurfsysAll(m, labels) ==
    IF Len(labels) = 0 THEN m ELSE AddSurfsysAll(AddSurfsys(m, labels[1]), Tail(labels))

\* The line at xl stripped is <tag>text</tag>.
Tagged(line, tag) ==
    /\ Slice(line, 0, Len(tag) + 2) = "<" \o tag \o ">"
    /\ Suffix(line, Len(tag) + 3) = "</" \o tag \o ">"

Inner(line, tag) == Slice(line, Len(tag) + 2, -(Len(tag) + 3))

\* The comma-separated labels of a volsys / surfsys line: [] for none.
Labels(text) == IF Split(text, ",")[1] = "" THEN <<>> ELSE Split(text, ",")

\* One pass of the loop over the compartments (lines 811-829).
CompBody(xml, i, st) ==
    LET idxtemp == Strip(ReadLine(xml, st.xl))
        idtemp == Strip(ReadLine(xml, st.xl + 1))
        volsystemp == Strip(ReadLine(xml, st.xl + 2))
        tettemp == Strip(ReadLine(xml, st.xl + 3))
        toks == Split(Inner(tettemp, "tets"), ",")
        Fail(e) == [st EXCEPT !.err = e]
    IN  IF ~IsInt(Slice(idxtemp, 13, -2)) THEN Fail("ValueError")
        ELSE IF PyInt(Slice(idxtemp, 13, -2)) # i THEN Fail("AssertionError")
        ELSE IF ~Tagged(idtemp, "id") THEN Fail("AssertionError")
        ELSE IF ~Tagged(volsystemp, "volsys") THEN Fail("AssertionError")
        ELSE IF ~Tagged(tettemp, "tets") THEN Fail("AssertionError")
        ELSE IF ConvErr(toks, 1, Len(toks), 0) # "" THEN Fail("ValueError")
        ELSE LET made == AddVolsysAll(TmComp(Inner(idtemp, "id"), st.mesh, Conv(toks, Len(toks), 0)),
                                     Labels(Inner(volsystemp, "volsys")))
             IN  IF Strip(ReadLine(xml, st.xl + 4)) # "</comp>"
                 THEN [st EXCEPT !.err = "AssertionError", !.mesh = made]
                 ELSE [st EXCEPT !.xl = @ + 5, !.mesh = made,
                                 !.out = Append(@, Inner(idtemp, "id"))]

\* One pass of the loop over the patches (lines 839-864).
PatchBody(xml, i, st) ==
    LET idxtemp == Strip(ReadLine(xml, st.xl))
        idtemp == Strip(ReadLine(xml, st.xl + 1))
        surfsystemp == Strip(ReadLine(xml, st.xl + 2))
        icomptemp == Strip(ReadLine(xml, st.xl + 3))
        ocomptemp == Strip(ReadLine(xml, st.xl + 4))
        tritemp == Strip(ReadLine(xml, st.xl + 5))
        toks == Split(Inner(tritemp, "tris"), ",")
        Fail(e) == [st EXCEPT !.err = e]
    IN  IF ~IsInt(Slice(idxtemp, 14, -2)) THEN Fail("ValueError")
        ELSE IF PyInt(Slice(idxtemp, 14, -2)) # i THEN Fail("AssertionError")
        ELSE IF ~Tagged(idtemp, "id") THEN Fail("AssertionError")
        ELSE IF ~Tagged(surfsystemp, "surfsys") THEN Fail("AssertionError")
        ELSE IF ~Tagged(icomptemp, "icomp") THEN Fail("AssertionError")
        ELSE IF ~Tagged(ocomptemp, "ocomp") THEN Fail("AssertionError")
        ELSE IF ~Tagged(tritemp, "tris") THEN Fail("AssertionError")
        ELSE IF ConvErr(toks, 1, Len(toks), 0) # "" THEN Fail("ValueError")
        ELSE IF ResolveErr(st.mesh, Inner(icomptemp, "icomp")) # ""
        THEN Fail(ResolveErr(st.mesh, Inner(icomptemp, "icomp")))
        ELSE IF Inner(ocomptemp, "ocomp") # "null"
                /\ ResolveErr(st.mesh, Inner(ocomptemp, "ocomp")) # ""
        THEN Fail(ResolveErr(st.mesh, Inner(ocomptemp, "ocomp")))
        ELSE LET ocomp == IF Inner(ocomptemp, "ocomp") # "null"
                          THEN GetComp(st.mesh, Inner(ocomptemp, "ocomp"))
                          ELSE None
                 made == AddSurfsysAll(TmPatch(Inner(idtemp, "id"), st.mesh, Conv(toks, Len(toks), 0),
                                              GetComp(st.mesh, Inner(icomptemp, "icomp")), ocomp),
                                      Labels(Inner(surfsystemp, "surfsys")))
             IN  IF Strip(ReadLine(xml, st.xl + 6)) # "</patch>"
                 THEN [st EXCEPT !.err = "AssertionError", !.mesh = made]
                 ELSE [st EXCEPT !.xl = @ + 7, !.mesh = made,
                                 !.out = Append(@, Inner(idtemp, "id"))]

RECURSIVE CompLoop(_, _, _, _)
CompLoop(xml, i, n, st) ==
    IF i >= n \/ st.err # "" THEN st ELSE CompLoop(xml, i + 1, n, CompBody(xml, i, st))

RECURSIVE PatchLoop(_, _, _, _)
PatchLoop(xml, i, n, st) ==
    IF i >= n \/ st.err # "" THEN st ELSE PatchLoop(xml, i + 1, n, PatchBody(xml, i, st))

\* The compartments or the patches: the opening tag, the entries, the
\* closing tag; m is the mesh the entries are created on.
ReadGroups(xml, xl, m, minlen, off, kind, close) ==
    LET head == SectionHead(xml, xl, minlen, off)
        st0 == [err |-> "", xl |-> xl + 1, mesh |-> m, out |-> <<>>]
        st == IF kind = "comp" THEN CompLoop(xml, 0, head.n, st0)
              ELSE PatchLoop(xml, 0, head.n, st0)
    IN  IF head.err # "" THEN [err |-> head.err, mesh |-> m]
        ELSE IF st.err # "" THEN st
        ELSE IF Strip(ReadLine(xml, st.xl)) # close
        THEN [st EXCEPT !.err = "AssertionError"]
        ELSE [st EXCEPT !.xl = @ + 1]

\* ------------------------------------------------- loadXML: the actions

\* Lines 702-710: the .xml file is opened, and the .txt file if there is one.
L_Open ==
    /\ pc = "l_start"
    /\ IF "xml" \notin DOMAIN files
       THEN /\ Raise("IOError")
            /\ UNCHANGED <<openFiles, ld>>
       ELSE /\ openFiles' = IF "txt" \in DOMAIN files
                            THEN Open(Open(openFiles, "xml"), "txt")
                            ELSE Open(openFiles, "xml")
            /\ ld' = [havetxt |-> "txt" \in DOMAIN files, xl |-> 1, tl |-> 1,
                      nodes_out |-> <<>>, tris_out |-> <<>>, tets_out |-> <<>>,
                      trigeo |-> Unbound, tetgeo |-> Unbound,
                      comps_out |-> <<>>, patches_out |-> <<>>]
            /\ result' = result
            /\ pc' = "l_header"
    /\ UNCHANGED <<inp, files, ret, Locals, mesh, todo>>

\* Lines 713-716: the first line is read, the second is checked.
L_Header ==
    /\ pc = "l_header"
    /\ IF RStrip(ReadLine(files["xml"], ld.xl + 1)) # "<tetmesh>"
       THEN result' = "None" /\ pc' = "done" /\ ld' = ld
       ELSE result' = result /\ pc' = "l_nodes" /\ ld' = [ld EXCEPT !.xl = @ + 2]
    /\ UNCHANGED <<inp, files, openFiles, ret, Locals, mesh, todo>>

\* The .txt file's lines, when loadXML has the file.
TxtLines == IF ld.havetxt THEN files["txt"] ELSE <<>>

\* Lines 719-735: the nodes.
L_Nodes ==
    /\ pc = "l_nodes"
    /\ LET r == ReadList(files["xml"], TxtLines, ld.havetxt, ld.xl, ld.tl,
                         17, 15, 0, NodeShape, "</nodes>")
       IN  IF r.err # ""
           THEN Raise(r.err) /\ ld' = ld
           ELSE /\ ld' = [ld EXCEPT !.xl = r.xl, !.tl = r.tl, !.nodes_out = r.out]
                /\ result' = result
                /\ pc' = "l_tris"
    /\ UNCHANGED <<inp, files, openFiles, ret, Locals, mesh, todo>>

\* Lines 738-766: the triangles, with their lines of the .txt file.
L_Tris ==
    /\ pc = "l_tris"
    /\ LET r == ReadList(files["xml"], TxtLines, ld.havetxt, ld.xl, ld.tl,
                         21, 19, 1, TriShape, "</triangles>")
       IN  IF r.err # ""
           THEN Raise(r.err) /\ ld' = ld
           ELSE /\ ld' = [ld EXCEPT !.xl = r.xl, !.tl = r.tl, !.tris_out = r.out,
                                    !.trigeo = IF ld.havetxt THEN [rows |-> r.geo] ELSE Unbound]
                /\ result' = result
                /\ pc' = "l_tets"
    /\ UNCHANGED <<inp, files, openFiles, ret, Locals, mesh, todo>>

\* Lines 769-798: the tetrahedra, with their lines of the .txt file.
L_Tets ==
    /\ pc = "l_tets"
    /\ LET r == ReadList(files["xml"], TxtLines, ld.havetxt, ld.xl, ld.tl,
                         24, 22, 1, TetShape, "</tetrahedrons>")
       IN  IF r.err # ""
           THEN Raise(r.err) /\ ld' = ld
           ELSE /\ ld' = [ld EXCEPT !.xl = r.xl, !.tl = r.tl, !.tets_out = r.out,
                                    !.tetgeo = IF ld.havetxt THEN [rows |-> r.geo] ELSE Unbound]
                /\ result' = result
                /\ pc' = "l_mesh"
    /\ UNCHANGED <<inp, files, openFiles, ret, Locals, mesh, todo>>

\* Line 802: the mesh object is made from the ten arrays; an array that
\* was never assigned stops the call.
L_Construct ==
    /\ pc = "l_mesh"
    /\ IF ld.trigeo = Unbound \/ ld.tetgeo = Unbound
       THEN Raise("UnboundLocalError") /\ mesh' = mesh
       ELSE /\ mesh' = TetmeshFull(ld.nodes_out, ld.tris_out,
                                   Columns(ld.trigeo.rows, 1, 1), Columns(ld.trigeo.rows, 2, 4),
                                   Columns(ld.trigeo.rows, 5, 6), ld.tets_out,
                                   Columns(ld.tetgeo.rows, 1, 1), Columns(ld.tetgeo.rows, 2, 4),
                                   Columns(ld.tetgeo.rows, 5, 8), Columns(ld.tetgeo.rows, 9, 12))
            /\ result' = result
            /\ pc' = "l_comps"
    /\ UNCHANGED <<inp, files, openFiles, ret, Locals, todo, ld>>

\* Lines 805-830: the compartments, each created on the mesh as it is read.
L_Comps ==
    /\ pc = "l_comps"
    /\ LET r == ReadGroups(files["xml"], ld.xl, mesh, 24, 22, "comp", "</compartments>")
       IN  /\ mesh' = r.mesh
           /\ IF r.err # ""
              THEN Raise(r.err) /\ ld' = ld
              ELSE /\ ld' = [ld EXCEPT !.xl = r.xl, !.comps_out = r.out]
                   /\ result' = result
                   /\ pc' = "l_patches"
    /\ UNCHANGED <<inp, files, openFiles, ret, Locals, todo>>

\* Lines 833-865: the patches.
L_Patches ==
    /\ pc = "l_patches"
    /\ LET r == ReadGroups(files["xml"], ld.xl, mesh, 19, 17, "patch", "</patches>")
       IN  /\ mesh' = r.mesh
           /\ IF r.err # ""
              THEN Raise(r.err) /\ ld' = ld
              ELSE /\ ld' = [ld EXCEPT !.xl = r.xl, !.patches_out = r.out]
                   /\ result' = result
                   /\ pc' = "l_return"
    /\ UNCHANGED <<inp, files, openFiles, ret, Locals, todo>>

\* Line 868: the tuple is returned; no line of loadXML closes a file.
L_Return ==
    /\ pc = "l_return"
    /\ ret' = [mesh |-> mesh, comps |-> [list |-> ld.comps_out],
               patches |-> [list |-> ld.patches_out]]
    /\ result' = "ok"
    /\ pc' = "done"
    /\ UNCHANGED <<inp, files, openFiles, Locals, mesh, todo, ld>>

InitXML ==
    /\ pc = "s_start"
    /\ inp \in XmlInputs
    /\ files = [n \in {} |-> <<>>]
    /\ openFiles = {}
    /\ result = ""
    /\ ret = None
    /\ idxshift = 0
    /\ nodes = Unbound
    /\ tets = Unbound
    /\ comps = <<>>
    /\ faces = Unbound
    /\ patches = <<>>
    /\ mesh = MeshOf(inp)
    /\ todo = {}
    /\ ld = Unbound

NextXML ==
    \/ X_SaveCheck
    \/ X_SaveOpen
    \/ X_SaveMesh
    \/ X_SaveComps
    \/ X_SavePatches
    \/ X_SaveClose
    \/ X_Between
    \/ L_Open
    \/ L_Header
    \/ L_Nodes
    \/ L_Tris
    \/ L_Tets
    \/ L_Construct
    \/ L_Comps
    \/ L_Patches
    \/ L_Return

SpecXML == InitXML /\ [][NextXML]_vars

\* ============================================================ readCubit

\* The calls of readCubit: a file in ABAQUS format of MaxRecs nodes and nt
\* tetrahedra and the caller's scale.  The node records are numbered from
\* `first`, in ascending or in descending order of id; every element
\* refers to nodes by the ids of the node records.  dev: the file is as
\* CUBIT writes it, is not there, has another first or third line, or
\* ends before its elements.
CubitInputs ==
    [nn : {MaxRecs}, nt : 1 .. MaxRecs, first : {1, 2}, order : {"asc", "desc"},
     scale : {1, 3}, dev : {"none", "missing", "heading", "node", "noElement"}]

\* The lines of the file: node id has the coordinates (id, 0.5, 1.5).
CubitFile(in) ==
    LET NodeLine(j) ==
            ToString(in.first + j) \o ", " \o Repr(2 * (in.first + j)) \o ", 0.5, 1.5\n"
        Ref(j, k) == ToString(((j + k) % in.nn) + in.first)
        EleLine(j) ==
            ToString(j + 1) \o ", " \o Ref(j, 0) \o ", " \o Ref(j, 1) \o ", "
                \o Ref(j, 2) \o ", " \o Ref(j, 3) \o "\n"
        ascending == [j \in 1 .. in.nn |-> NodeLine(j - 1)]
    IN  << (IF in.dev = "heading" THEN "*HEADER\n" ELSE "*HEADING\n"),
           "cubit(mesh.inp): 01/01/2010: 12:00:00\n",
           (IF in.dev = "node" THEN "*NODES\n" ELSE "*NODE\n") >>
        \o (IF in.order = "desc" THEN Reverse(ascending) ELSE ascending)
        \o (IF in.dev = "noElement" THEN <<>>
            ELSE << "*ELEMENT, TYPE=C3D4, ELSET=EB1\n" >>
                 \o [j \in 1 .. in.nt |-> EleLine(j - 1)])

\* line.replace(',', ' ').split()
CubitTokens(line) ==
    LET RECURSIVE Replace(_)
        Replace(i) ==
            IF i > Len(line) THEN ""
            ELSE (IF Ch(line, i) = "," THEN " " ELSE Ch(line, i)) \o Replace(i + 1)
    IN  SplitWs(Replace(1))

\* Lines 393-410: the loop over the node records, from line xl of the file
\* to the line whose first token is *ELEMENT; st holds the list pnts.
RECURSIVE CubitNodeLoop(_, _, _, _)
CubitNodeLoop(lines, xl, scale, st) ==
    LET line == CubitTokens(ReadLine(lines, xl))
    IN  IF Len(line) = 0 THEN [st EXCEPT !.err = "IndexError"]
        ELSE IF line[1] = "*ELEMENT" THEN [st EXCEPT !.xl = xl]
        ELSE IF Len(line) # 4 THEN [st EXCEPT !.err = "AssertionError"]
        ELSE IF ~IsInt(line[1]) THEN [st EXCEPT !.err = "ValueError"]
        ELSE IF \E k \in 2 .. 4 : ~IsFloat(line[k]) THEN [st EXCEPT !.err = "ValueError"]
        ELSE CubitNodeLoop(lines, xl + 1, scale,
                 [st EXCEPT !.list = @ \o [k \in 1 .. 3 |-> PyFloat(line[k + 1]) * scale]])

\* An element's node reference kept as the file gives it.
CubitRefAsIs(token) == PyInt(token)

\* Lines 423-426: int(line[k]) - 1
CubitRef(token) == PyInt(token) - 1

\* Lines 414-428: the loop over the element records, to the end of the file.
RECURSIVE CubitTetLoop(_, _, _)
CubitTetLoop(lines, xl, st) ==
    LET line == CubitTokens(ReadLine(lines, xl))
    IN  IF ReadLine(lines, xl) = "" THEN st
        ELSE IF Len(line) # 5 THEN [st EXCEPT !.err = "AssertionError"]
        ELSE IF \E k \in 1 .. 5 : ~IsInt(line[k]) THEN [st EXCEPT !.err = "ValueError"]
        ELSE CubitTetLoop(lines, xl + 1,
                 [st EXCEPT !.list = @ \o [k \in 1 .. 4 |-> CubitRef(line[k + 1])]])

\* Lines 374-390: the file is opened and its first three lines are read.
\* The variable nodes holds the list pnts, the variable tets the list tets.
Q_Header ==
    /\ pc = "q_start"
    /\ IF "cub" \notin DOMAIN files
       THEN Raise("IOError") /\ UNCHANGED <<openFiles, nodes, tets, ld>>
       ELSE /\ openFiles' = Open(openFiles, "cub")
            /\ IF ReadLine(files["cub"], 1) # "*HEADING\n" \/ ReadLine(files["cub"], 3) # "*NODE\n"
               THEN Raise("AssertionError") /\ UNCHANGED <<nodes, tets, ld>>
               ELSE /\ nodes' = <<>>
                    /\ tets' = <<>>
                    /\ ld' = [xl |-> 4]
                    /\ pc' = "q_nodes"
                    /\ result' = result
    /\ UNCHANGED <<inp, files, ret, idxshift, comps, faces, patches, mesh, todo>>

\* Lines 393-411: the node records.
Q_Nodes ==
    /\ pc = "q_nodes"
    /\ LET st == CubitNodeLoop(files["cub"], ld.xl, inp.scale,
                               [err |-> "", xl |-> ld.xl, list |-> nodes])
       IN  IF st.err # ""
           THEN Raise(st.err) /\ UNCHANGED <<nodes, ld>>
           ELSE /\ nodes' = st.list
                /\ ld' = [xl |-> st.xl + 1]
                /\ pc' = "q_tets"
                /\ result' = result
    /\ UNCHANGED <<inp, files, openFiles, ret, idxshift, tets, comps, faces, patches,
                   mesh, todo>>

\* Lines 414-429: the element records.
Q_Tets ==
    /\ pc = "q_tets"
    /\ LET st == CubitTetLoop(files["cub"], ld.xl, [err |-> "", list |-> tets])
       IN  IF st.err # ""
           THEN Raise(st.err) /\ tets' = tets
           ELSE /\ tets' = st.list
                /\ pc' = "q_mesh"
                /\ result' = result
    /\ UNCHANGED <<inp, files, openFiles, ret, idxshift, nodes, comps, faces, patches,
                   mesh, todo, ld>>

\* Lines 438-444: the mesh is built from the two lists, checked and
\* returned; the file is left open.
Q_Construct ==
    /\ pc = "q_mesh"
    /\ mesh' = Tetmesh(nodes, tets, <<>>)
    /\ IF Len(nodes) \div 3 # CountVertices(mesh') \/ Len(tets) \div 4 # CountTets(mesh')
       THEN Raise("AssertionError") /\ ret' = ret
       ELSE /\ ret' = mesh'
            /\ result' = "ok"
            /\ pc' = "done"
    /\ UNCHANGED <<inp, files, openFiles, Locals, todo, ld>>

InitCubit ==
    /\ pc = "q_start"
    /\ inp \in CubitInputs
    /\ files = IF inp.dev = "missing" THEN [n \in {} |-> <<>>]
               ELSE [n \in {"cub"} |-> CubitFile(inp)]
    /\ openFiles = {}
    /\ result = ""
    /\ ret = None
    /\ idxshift = 0
    /\ nodes = Unbound
    /\ tets = Unbound
    /\ comps = <<>>
    /\ faces = Unbound
    /\ patches = <<>>
    /\ mesh = None
    /\ todo = {}
    /\ ld = Unbound

NextCubit ==
    \/ Q_Header
    \/ Q_Nodes
    \/ Q_Tets
    \/ Q_Construct

SpecCubit == InitCubit /\ [][NextCubit]_vars



\* What readTetgen hands to mesh construction for a file system fs: the
\* exception raised before the mesh is built if any ("None" for the early
\* return), the three arrays as the readers leave them, and the two tag lists.
Import(fs) ==
    IF "node" \notin DOMAIN fs \/ "ele" \notin DOMAIN fs
    THEN [err |-> "None"]
    ELSE LET n == ReadNodeFile(fs["node"])
             e == ReadEleFile(fs["ele"], n.idxshift)
             f == ReadFaceFile(fs["face"], n.idxshift)
         IN  IF n.err # "" THEN [err |-> n.err]
             ELSE IF e.err # "" THEN [err |-> e.err]
             ELSE IF "face" \notin DOMAIN fs THEN [err |-> "AttributeError"]
             ELSE IF f.err # "" THEN [err |-> f.err]
             ELSE [err |-> "", nodes |-> n.arr, tets |-> e.arr, faces |-> f.arr,
                   comps |-> e.list, patches |-> f.list]

\* A flattened array the engine was given is the array arr, whatever its
\* never-written rows held.
IsArray(flat, arr) == \E g \in Garbage : flat = Flatten(Settle(arr, g))

\* The mesh built is the mesh readTetgen builds from what im holds.
SameMesh(m, im) ==
    /\ IsArray(m.nodes, im.nodes)
    /\ IsArray(m.tets, im.tets)
    /\ IsArray(m.tris, im.faces)

\* The (slot, tag) pairs of the data records of a .ele file: the slot is the
\* record's element id less the shift, the tag its attribute column.
EleSlotTags(lines, shift) ==
    LET hdr == EleHeader(ReadLine(lines, 1))
        recs == {k \in 2 .. Len(lines) : Len(Tokens(lines[k])) > hdr.attridx}
    IN  IF hdr.err # "" \/ hdr.attrib = 0 THEN {}
        ELSE {<<NpIndex(PyInt(Tokens(lines[k])[1]) - shift, hdr.n),
                PyInt(Tokens(lines[k])[hdr.attridx + 1])>> : k \in recs}

\* The region tags that occur in the .ele file of a file system.
FileRegionTags(fs) ==
    IF "ele" \notin DOMAIN fs THEN {}
    ELSE {st[2] : st \in EleSlotTags(fs["ele"], 0)}

\* ---------------------------------------------------- readTetgen: claims

WellFormed(in) == in.anomaly = NoAnomaly

\* C3: the .face file is optional: with well-formed .node and .ele files and
\* no .face file, readTetgen returns normally, with a mesh and with None as
\* the boundary-tag component.
C3_FaceOptional ==
    (pc = "done" /\ WellFormed(inp) /\ "face" \notin DOMAIN files)
        => (result = "ok" /\ mesh # None /\ ret.patches = None)

\* C4: index-shift invariance: a file-set numbered from 1, its records in
\* ascending order, and the same file-set renumbered from 0 end the same
\* way, and when a mesh is built the vertex, tetrahedron and triangle arrays
\* handed to the engine are the same.
C4_ShiftInvariance ==
    (pc = "done" /\ inp.base = 1 /\ inp.rev = {} /\ inp.anomaly.kind # "missing")
        => LET twin == Import(TetgenFiles([inp EXCEPT !.base = 0]))
           IN  /\ (mesh # None) <=> (twin.err = "")
               /\ (mesh # None) => SameMesh(mesh, twin)

\* C5: every compartment readTetgen creates holds exactly the tetrahedra
\* (the slots the element records were stored at) whose record carries the
\* compartment's tag, in whatever order the element records come in a
\* file-set of plain records whose node records come in ascending order.
C5_CompMembers ==
    (mesh # None /\ CompMap(inp) # None /\ WellFormed(inp) /\ "node" \notin inp.rev)
        => \A k \in 1 .. Len(mesh.comps) :
             \E g \in DOMAIN CompMap(inp).dict :
               /\ mesh.comps[k].id = CompMap(inp).dict[g]
               /\ Uniq(mesh.comps[k].tets)
                    = {st[1] : st \in {x \in EleSlotTags(files["ele"], idxshift) : x[2] = g}}

\* C6: when a compartment map is given and a region tag of the .ele file is
\* not one of its keys, no compartment is ever created and the operation
\* does not end normally.
C6_CheckBeforeCreate ==
    (CompMap(inp) # None
        /\ \E g \in FileRegionTags(files) : g \notin DOMAIN CompMap(inp).dict)
        => /\ mesh # None => mesh.comps = <<>>
           /\ pc = "done" => result # "ok"

\* C6's case: the check of the map failed on a mesh that was built.
C6_Witness ==
    /\ pc = "done"
    /\ WellFormed(inp)
    /\ result = "AssertionError"
    /\ mesh # None
    /\ mesh.comps = <<>>
    /\ Len(comps) > 0
    /\ CompMap(inp) # None
    /\ \E g \in Uniq(comps) : g \notin DOMAIN CompMap(inp).dict

\* C7: comment lines and blank lines are skipped: a file-set with such a
\* line among the records of one file, the records in ascending order,
\* imports like the file-set without it, with no error and the same arrays
\* and tag lists.
C7_CommentsSkipped ==
    (pc = "done" /\ inp.rev = {} /\ inp.anomaly.kind \in {"comment", "blank"})
        => LET clean == Import(TetgenFiles([inp EXCEPT !.anomaly = NoAnomaly]))
           IN  clean.err = ""
                 => /\ mesh # None
                    /\ SameMesh(mesh, clean)
                    /\ comps = clean.comps
                    /\ patches = clean.patches

\* ----------------------------------------- saveXML and loadXML: the claims

\* The mesh m has the structure of the mesh o: the same coordinates, the
\* same index tuples in the same order, the same compartments and patches
\* in the same order, each with the same members, labels and compartments.
SameStructure(m, o) ==
    /\ m.nodes = o.nodes
    /\ m.tets = o.tets
    /\ m.tris = o.tris
    /\ Len(m.comps) = Len(o.comps)
    /\ \A c \in 1 .. Len(o.comps) :
          /\ m.comps[c].id = o.comps[c].id
          /\ Uniq(m.comps[c].tets) = Uniq(o.comps[c].tets)
          /\ m.comps[c].volsys = o.comps[c].volsys
    /\ Len(m.patches) = Len(o.patches)
    /\ \A p \in 1 .. Len(o.patches) :
          /\ m.patches[p].id = o.patches[p].id
          /\ Uniq(m.patches[p].tris) = Uniq(o.patches[p].tris)
          /\ m.patches[p].surfsys = o.patches[p].surfsys
          /\ m.patches[p].icomp = o.patches[p].icomp
          /\ m.patches[p].ocomp = o.patches[p].ocomp

\* Every compartment of m has a tetrahedron and every patch a triangle.
AllPopulated(m) ==
    /\ \A c \in 1 .. Len(m.comps) : Len(m.comps[c].tets) > 0
    /\ \A p \in 1 .. Len(m.patches) : Len(m.patches[p].tris) > 0

\* C1: saveXML of a mesh followed by loadXML of the two files it wrote, left
\* as they are, completes without error and gives a mesh of the same
\* structure, whatever members and labels the compartments and patches have.
C1_RoundTrip ==
    (pc = "done" /\ inp.tamper = "none")
        => (result = "ok" /\ SameStructure(mesh, MeshOf(inp)))

\* C2: with the .xml file as saveXML wrote it and no .txt file, loadXML
\* succeeds and returns the mesh built from the structural data, with no
\* derived geometry in it.
C2_LoadWithoutTxt ==
    (pc = "done" /\ inp.tamper = "noTxt" /\ AllPopulated(MeshOf(inp)))
        => (result = "ok" /\ SameStructure(mesh, MeshOf(inp)) /\ "geom" \notin DOMAIN mesh)

\* C8: when saveXML or loadXML has returned or raised, no file it opened is
\* still open.
C8_HandlesClosed == pc \in {"saved", "done"} => openFiles = {}

\* C9: loadXML of a .xml file that deviates from what saveXML wrote (last
\* line missing, other first line, other root tag, other text in an opening
\* tag, other closing tag, sections in another order) does not succeed and
\* returns no result.
C9_StrictParsing ==
    (pc = "done" /\ inp.tamper \in XmlDeviations) => (result # "ok" /\ ret = None)

\* C10: when the .txt file is there and declares another number of triangles
\* or of tetrahedra than the .xml file holds, loadXML fails with the failed
\* assertion and no mesh is ever constructed.
C10_CountMismatch ==
    inp.tamper \in {"txtTris", "txtTets"}
        => /\ mesh = None
           /\ pc = "done" => result = "AssertionError"

\* The load has failed on the tetrahedron count of the .txt file, after the
\* nodes and the triangles were read, and there is no mesh.
C10_Witness ==
    /\ pc = "done"
    /\ inp.tamper = "txtTets"
    /\ "txt" \in openFiles
    /\ result = "AssertionError"
    /\ Len(ld.tris_out) > 0
    /\ mesh = None

C12_IndexBounds ==
    (pc = "done" /\ result = "ok" /\ WellFormed(inp))
    => /\ \A k \in 1 .. Len(mesh.tets) : mesh.tets[k] \in 0 .. inp.nn - 1
       /\ \A k \in 1 .. Len(mesh.tris) : mesh.tris[k] \in 0 .. inp.nn - 1

\* C13: saveXML tests its mesh argument before any output: for an argument
\* that is no Tetmesh object it returns 0 and neither pathname.xml nor
\* pathname.txt is ever created, opened or written.
C13_ValidatedBeforeOutput ==
    inp.objstr = OtherStr
    => /\ DOMAIN files = {}
       /\ openFiles = {}
       /\ pc \in {"s_start", "done"}
       /\ pc = "done" => result = "0"

C13_Witness ==
    /\ pc = "done"
    /\ inp.objstr = OtherStr
    /\ result = "0"
    /\ DOMAIN files = {}
    /\ openFiles = {}

\* C14: when the .ele header declares no region attribute, readTetgen
\* returns None as the region tags, whatever further columns the element
\* records hold; when it declares one and the import succeeds, it returns
\* a list of exactly one tag per tetrahedron.
C14_AttributeAbsence ==
    (pc = "done" /\ result = "ok")
    => /\ inp.tattr = 0 => ret.comps = None
       /\ inp.tattr = 1 => (ret.comps # None /\ Len(ret.comps.list) = inp.nt)

C14_Witness ==
    /\ pc = "done"
    /\ result = "ok"
    /\ inp.anomaly.kind = "extracol"
    /\ inp.nt = MaxRecs
    /\ ret.comps = None

\* C15: when the .ele header declares the region attribute and an element
\* record lacks the attribute column, readTetgen ends with an error: no
\* mesh is built and nothing is returned.
C15_Cardinality ==
    inp.anomaly.kind = "shortcol"
    => /\ mesh = None
       /\ ret = None
       /\ pc = "done" => result \notin {"", "ok"}

C15_Witness ==
    /\ pc = "done"
    /\ inp.anomaly.kind = "shortcol"
    /\ inp.anomaly.pos = inp.nt - 1
    /\ inp.nt = MaxRecs
    /\ result = "IndexError"
    /\ mesh = None
    /\ ret = None

C18_PatchAnnotation ==
    (mesh # None /\ WellFormed(inp) /\ "node" \notin inp.rev)
    => LET lines == files["face"]
           slotTags ==
               IF inp.fattr = 0 THEN {}
               ELSE {<<NpIndex(PyInt(Tokens(lines[k])[1]) - idxshift, inp.nf),
                       PyInt(Tokens(lines[k])[5])>> : k \in 2 .. Len(lines)}
       IN  /\ CompMap(inp) = None => mesh.patches = <<>>
           /\ \A k \in 1 .. Len(mesh.patches) :
                 \E g \in DOMAIN PatchMap(inp).dict :
                    /\ mesh.patches[k].id = PatchMap(inp).dict[g]
                    /\ Uniq(mesh.patches[k].tris)
                         = {st[1] : st \in {x \in slotTags : x[2] = g}}
           /\ (inp.maps = "patchBadInner" /\ Len(patches) > 0)
                 => /\ mesh.patches = <<>>
                    /\ pc = "done" => result # "ok"

\* ----------------------------------------------------- readCubit: claims

\* The tokens of the j-th node record and of the j-th element record of
\* the file, in the order of the file.
CubitNodeTokens(j) == CubitTokens(files["cub"][3 + j])
CubitEleTokens(j) == CubitTokens(files["cub"][4 + inp.nn + j])

\* C16: readCubit stores every node reference r of an element as the vertex
\* index r - 1, whatever the id of the first node record is, stores every
\* coordinate multiplied by the caller's scale, and returns the mesh
\* itself, not a tuple.
C16_RefsAndScale ==
    (pc = "done" /\ result = "ok")
    => /\ Len(mesh.tets) = 4 * inp.nt
       /\ \A j \in 1 .. inp.nt : \A k \in 1 .. 4 :
             mesh.tets[4 * (j - 1) + k] = PyInt(CubitEleTokens(j)[k + 1]) - 1
       /\ Len(mesh.nodes) = 3 * inp.nn
       /\ \A j \in 1 .. inp.nn : \A k \in 1 .. 3 :
             mesh.nodes[3 * (j - 1) + k] = PyFloat(CubitNodeTokens(j)[k + 1]) * inp.scale
       /\ ret = mesh
       /\ DOMAIN ret = DOMAIN Tetmesh(<<>>, <<>>, <<>>)

C16_Witness ==
    /\ pc = "done"
    /\ result = "ok"
    /\ inp.order = "desc"
    /\ inp.first = 1
    /\ inp.scale = 3
    /\ inp.nt = MaxRecs
    /\ PyInt(CubitNodeTokens(1)[1]) = MaxRecs
    /\ mesh.tets[1] = 0
    /\ mesh.nodes[1] = 6 * MaxRecs

\* C19: in readCubit the node record with id k is stored at vertex index
\* k - 1, so that an element's reference r denotes the node whose record
\* has id r, in whatever order the file holds its node records.
C19_IndexById ==
    (pc = "done" /\ result = "ok" /\ inp.first = 1)
    => \A j \in 1 .. inp.nn :
          LET k == PyInt(CubitNodeTokens(j)[1])
          IN  \A c \in 1 .. 3 :
                 mesh.nodes[3 * (k - 1) + c] = PyFloat(CubitNodeTokens(j)[c + 1]) * inp.scale

====
